---- MODULE Spec2Model ----
(***************************************************************************)
(* Data acquisition and caching layer of the earthquake viewer:            *)
(* fetchEarthquakes with its localStorage cache (cacheData/getCachedData), *)
(* the 30 s abort timer, the real-time post-filter and the one-shot        *)
(* historical -> week fallback.                                            *)
(*                                                                         *)
(* Units: time in milliseconds (Date.now()), calendar dates as day numbers *)
(* (day 0 is the day on which the clock starts), coordinates in whole      *)
(* degrees, magnitudes in whole units.                                     *)
(***************************************************************************)
EXTENDS Integers, Sequences, FiniteSets, TLC

VARIABLES
  now,      \* Date.now()
  cache,    \* localStorage: key -> serialized cache item
  calls,    \* the invocations of fetchEarthquakes made by the caller, by slot
  started,  \* number of invocations started so far
  storage,  \* how localStorage behaves: "ok", "throws" (getItem and setItem
            \* throw) or "garbled" (getItem returns text that is no cache
            \* item, setItem throws)
  ui        \* the state of the EarthquakeMap component

vars == <<now, cache, calls, started, storage, ui>>

(***************************************************************************)
(* Bounds of the model.                                                    *)
(***************************************************************************)
MaxCalls == 2
MaxFeatures == 2

(***************************************************************************)
(* Program constants.                                                      *)
(***************************************************************************)
CACHE_DURATIONS ==
  [hour |-> 5 * 60 * 1000,
   day |-> 15 * 60 * 1000,
   week |-> 60 * 60 * 1000,
   historical |-> 24 * 60 * 60 * 1000]

\* [min longitude, min latitude, max longitude, max latitude]
IRAN_BOUNDS == <<44, 25, 63, 40>>

FETCH_TIMEOUT == 30000

(***************************************************************************)
(* Values.                                                                 *)
(***************************************************************************)
\* An optional date: <<>> is undefined, <<d>> is the date string of day d.
Undefined == <<>>
DateOf(d) == <<d>>

MsPerDay == 24 * 60 * 60 * 1000

\* toISOString().split("T")[0] of the current instant
Today(t) == t \div MsPerDay

\* new Date(d).getTime() of a date string, midnight UTC of that day, in
\* seconds: the instants of the model are 32-bit numbers of milliseconds.
DateSeconds(d) == d[1] * (24 * 60 * 60)

\* One GeoJSON feature. hasGeom = FALSE: geometry (or its coordinates) is
\* null/missing. magKind: "num" a number, "null" JSON null, "undef" absent.
Feature(id, hasGeom, lon, lat, magKind, mag) ==
  [id |-> id, hasGeom |-> hasGeom, lon |-> lon, lat |-> lat,
   magKind |-> magKind, mag |-> mag]

\* A decoded response body. count is metadata.count as the payload states it.
Body(hasFeatures, features, hasMetadata, count) ==
  [hasFeatures |-> hasFeatures, features |-> features,
   hasMetadata |-> hasMetadata, count |-> count]

NoData == Body(FALSE, <<>>, FALSE, 0)

\* A caught exception: its name, what raised it, and which of the substrings
\* the catch block looks for occur in its message.
RawError(name, origin, status, marks) ==
  [name |-> name, origin |-> origin, status |-> status, marks |-> marks]

NoRawError == RawError("", "", 0, {})

\* The Error an invocation throws to its caller: the message template, the
\* caught error whose message it embeds (NoRawError when it embeds none) and
\* the timeRange of the invocation that created it.
Thrown(msg, detail, by) == [msg |-> msg, detail |-> detail, by |-> by]

NoThrown == Thrown("", NoRawError, "")

(***************************************************************************)
(* Cache store (localStorage).                                             *)
(***************************************************************************)
\* `${startDate || ""}`: undefined is written as the empty string.
OrEmpty(d) == IF d = Undefined THEN <<>> ELSE d

\* `earthquake_data_${timeRange}_${minMagnitude}_${startDate || ""}_${endDate || ""}_iran`
CacheKey(timeRange, minMagnitude, startDate, endDate) ==
  <<"earthquake_data", timeRange, minMagnitude, OrEmpty(startDate),
    OrEmpty(endDate), "iran">>

\* timeRange === "custom" ? "historical" : timeRange
Category(timeRange) == IF timeRange = "custom" THEN "historical" ELSE timeRange

\* JSON.stringify / JSON.parse of a cache item {data, timestamp}
JSONstringify(item) == [json |-> item]
JSONparse(text) == text.json

\* CACHE_DURATIONS[timeRange] || CACHE_DURATIONS.day
CacheDuration(timeRange) ==
  IF timeRange \in DOMAIN CACHE_DURATIONS
    THEN CACHE_DURATIONS[timeRange]
    ELSE CACHE_DURATIONS.day

\* StillValid with the boundary instant included.
StillValidInclusive(t, timestamp, timeRange) ==
  t - timestamp <= CacheDuration(timeRange)

\* Date.now() - timestamp < cacheDuration
StillValid(t, timestamp, timeRange) == t - timestamp < CacheDuration(timeRange)

\* The exception of a failing localStorage call or of JSON.parse.
StorageError == RawError("Error", "storage", 0, {})

\* localStorage as the cache functions see it.
LocalStorage(mode, items) == [mode |-> mode, items |-> items]

\* The try block of getCachedData (lines 157-170): threw = TRUE when getItem or
\* JSON.parse throws.
ReadCached(ls, t, key, timeRange) ==
  IF ls.mode # "ok"
    THEN [threw |-> TRUE, found |-> FALSE, data |-> NoData]
  ELSE IF key \notin DOMAIN ls.items
    THEN [threw |-> FALSE, found |-> FALSE, data |-> NoData]
  ELSE LET item == JSONparse(ls.items[key])
       IN IF StillValid(t, item.timestamp, timeRange)
            THEN [threw |-> FALSE, found |-> TRUE, data |-> item.data]
            ELSE [threw |-> FALSE, found |-> FALSE, data |-> NoData]

\* getCachedData that never finds an entry.
getCachedDataNever(ls, t, key, timeRange) ==
  [threw |-> FALSE, found |-> FALSE, data |-> NoData]

\* getCachedData(key, timeRange) at instant t: the data, or null; the catch
\* block turns every exception into null.
getCachedData(ls, t, key, timeRange) ==
  LET r == ReadCached(ls, t, key, timeRange)
  IN IF r.threw
       THEN [threw |-> FALSE, found |-> FALSE, data |-> NoData]
       ELSE r

\* A setItem that appends the new features to those of the entry it finds.
WriteCachedMerging(ls, t, key, data) ==
  [threw |-> FALSE,
   items |-> [k \in DOMAIN ls.items \cup {key} |->
                IF k # key THEN ls.items[k]
                ELSE IF key \in DOMAIN ls.items
                  THEN JSONstringify(
                         [data |-> [data EXCEPT !.features =
                                      JSONparse(ls.items[key]).data.features
                                        \o @],
                          timestamp |-> t])
                  ELSE JSONstringify([data |-> data, timestamp |-> t])]]

\* The try block of cacheData (lines 144-148): the items afterwards, and
\* whether setItem threw.
WriteCached(ls, t, key, data) ==
  IF ls.mode # "ok"
    THEN [threw |-> TRUE, items |-> ls.items]
    ELSE [threw |-> FALSE,
          items |-> [k \in DOMAIN ls.items \cup {key} |->
                       IF k = key
                         THEN JSONstringify([data |-> data, timestamp |-> t])
                         ELSE ls.items[k]]]

\* cacheData that stores nothing.
cacheDataNothing(ls, t, key, data) == [threw |-> FALSE, items |-> ls.items]

\* cacheData without its try/catch.
cacheDataUnguarded(ls, t, key, data) == WriteCached(ls, t, key, data)

\* cacheData(key, data, timeRange) at instant t; the catch block swallows the
\* exception of setItem.
cacheData(ls, t, key, data) ==
  [threw |-> FALSE, items |-> WriteCached(ls, t, key, data).items]

(***************************************************************************)
(* Query builder: the URL of the upstream request.                         *)
(***************************************************************************)
\* A builder that passes the end date on as it is.
ValidEndDateUnclamped(t, endDate) == endDate

\* endDate && new Date(endDate) > now ? today : endDate. A whole number of
\* seconds exceeds t ms exactly when it exceeds the whole seconds of t.
ValidEndDate(t, endDate) ==
  IF endDate # Undefined /\ DateSeconds(endDate) > t \div 1000
    THEN DateOf(Today(t))
    ELSE endDate

FeedUrl(timeRange) ==
  [api |-> "feed", range |-> timeRange, starttime |-> Undefined,
   endtime |-> Undefined, minmagnitude |-> <<>>, bounds |-> <<>>]

QueryUrl(t, minMagnitude, startDate, endDate) ==
  [api |-> "query", range |-> "", starttime |-> startDate,
   endtime |-> ValidEndDate(t, endDate), minmagnitude |-> <<minMagnitude>>,
   bounds |-> IRAN_BOUNDS]

BuildUrl(t, timeRange, minMagnitude, startDate, endDate) ==
  IF timeRange = "custom"
    THEN QueryUrl(t, minMagnitude, startDate, endDate)
    ELSE FeedUrl(timeRange)

(***************************************************************************)
(* Result normalizer: the post-filter of the real-time feeds.              *)
(***************************************************************************)
\* feature.properties.mag >= minMagnitude as JavaScript evaluates it:
\* null converts to 0, undefined to NaN (every comparison with NaN is false).
MagAtLeast(f, minMagnitude) ==
  CASE f.magKind = "num" -> f.mag >= minMagnitude
    [] f.magKind = "null" -> 0 >= minMagnitude
    [] OTHER -> FALSE

\* InBounds with the western bound excluded.
InBoundsWestExclusive(f, minMagnitude) ==
  /\ f.lon > IRAN_BOUNDS[1]
  /\ f.lon <= IRAN_BOUNDS[3]
  /\ f.lat >= IRAN_BOUNDS[2]
  /\ f.lat <= IRAN_BOUNDS[4]
  /\ MagAtLeast(f, minMagnitude)

\* The filter callback, for a feature whose geometry.coordinates exists.
InBounds(f, minMagnitude) ==
  /\ f.lon >= IRAN_BOUNDS[1]
  /\ f.lon <= IRAN_BOUNDS[3]
  /\ f.lat >= IRAN_BOUNDS[2]
  /\ f.lat <= IRAN_BOUNDS[4]
  /\ MagAtLeast(f, minMagnitude)

TypeErrorRaised == RawError("TypeError", "shape", 0, {})

\* Lines 89-104 applied to the decoded body: the data to cache and return,
\* or the TypeError raised by reading a property of undefined/null.
Normalize(timeRange, minMagnitude, data) ==
  IF timeRange # "custom"
    THEN IF \/ ~data.hasFeatures
            \/ \E i \in 1..Len(data.features) : ~data.features[i].hasGeom
            \/ ~data.hasMetadata
           THEN [ok |-> FALSE, data |-> NoData, error |-> TypeErrorRaised]
           ELSE LET kept == SelectSeq(data.features,
                                      LAMBDA f : InBounds(f, minMagnitude))
                IN [ok |-> TRUE,
                    data |-> [data EXCEPT !.features = kept, !.count = Len(kept)],
                    error |-> NoRawError]
    ELSE [ok |-> TRUE, data |-> data, error |-> NoRawError]

(***************************************************************************)
(* The catch block: which Error is thrown, or the fallback.                *)
(***************************************************************************)
\* error.message.includes(text)
Includes(error, text) == text \in error.marks

\* A catch block that falls back whatever the time range.
ClassifyAlwaysFallback(timeRange, error) ==
  IF error.name = "AbortError"
    THEN [fallback |-> FALSE,
          thrown |-> Thrown("Request timed out", NoRawError, timeRange)]
    ELSE [fallback |-> TRUE, thrown |-> NoThrown]

\* The decision of lines 113-137 for the invocation with this timeRange.
\* fallback = TRUE: return fetchEarthquakes({timeRange: "week", ...}).
Classify(timeRange, error) ==
  IF error.name = "AbortError"
    THEN [fallback |-> FALSE,
          thrown |-> Thrown("Request timed out", NoRawError, timeRange)]
  ELSE IF Includes(error, "Failed to fetch")
    THEN [fallback |-> FALSE,
          thrown |-> Thrown("Network error", NoRawError, timeRange)]
  ELSE IF Includes(error, "400")
    THEN IF Includes(error, "orderby")
           THEN [fallback |-> FALSE,
                 thrown |-> Thrown("API parameter error", NoRawError, timeRange)]
         ELSE IF timeRange = "custom"
           THEN [fallback |-> FALSE,
                 thrown |-> Thrown("Invalid date range", NoRawError, timeRange)]
         ELSE [fallback |-> FALSE,
               thrown |-> Thrown("API error", error, timeRange)]
  ELSE IF timeRange = "custom"
    THEN [fallback |-> TRUE, thrown |-> NoThrown]
    ELSE [fallback |-> FALSE,
          thrown |-> Thrown("Failed to fetch earthquake data", error, timeRange)]

(***************************************************************************)
(* One invocation of fetchEarthquakes, with its fallback invocation.       *)
(***************************************************************************)
Args(timeRange, minMagnitude, startDate, endDate) ==
  [timeRange |-> timeRange, minMagnitude |-> minMagnitude,
   startDate |-> startDate, endDate |-> endDate]

NoArgs == Args("", 0, Undefined, Undefined)

NoUrl == FeedUrl("")

\* A slot before its first call. pc: "idle", "fetch" (await fetch), "text"
\* (await response.text()), "json" (await response.json()), "done".
\*   args      the arguments of the caller's invocation
\*   cur       the arguments of the invocation that is running (the fallback's
\*             once the fallback has been entered)
\*   timers    the pending setTimeout callbacks, each with the number of the
\*             attempt whose controller it aborts (0: an earlier call's)
\*   invs      one record per invocation entered: its arguments and cache read
\*   requests  the URLs fetched, in order
\*   errs      the errors caught, in order
\*   bodies    the bodies decoded, in order
IdleCall ==
  [pc |-> "idle", args |-> NoArgs, cur |-> NoArgs, key |-> <<>>,
   url |-> NoUrl, status |-> 0, timers |-> {}, invs |-> <<>>,
   requests |-> <<>>, errs |-> <<>>, bodies |-> <<>>,
   outcome |-> "none", data |-> NoData, error |-> NoThrown]

\* An abort timer of three seconds.
AbortDeadlineShort(t) == t + 3 * 1000

\* Line 69: the instant at which the timer of a request made at t aborts it.
AbortDeadline(t) == t + FETCH_TIMEOUT

\* Lines 29-79 up to the await of fetch: the cache read, then on a miss the
\* URL, the abort timer and the request.
Invoke(cr, t, ls, a) ==
  LET key == CacheKey(a.timeRange, a.minMagnitude, a.startDate, a.endDate)
      got == getCachedData(ls, t, key, Category(a.timeRange))
      had == ls.mode = "ok" /\ key \in DOMAIN ls.items
      inv == [args |-> a, key |-> key, at |-> t, had |-> had,
              timestamp |->
                IF had THEN JSONparse(ls.items[key]).timestamp ELSE 0,
              stored |-> IF had THEN JSONparse(ls.items[key]).data ELSE NoData,
              found |-> got.found]
      url == BuildUrl(t, a.timeRange, a.minMagnitude, a.startDate, a.endDate)
      n == Len(cr.invs) + 1
  IN IF got.threw
       \* line 33 is outside the try block: the exception rejects the call
       THEN [cr EXCEPT !.pc = "done", !.cur = a, !.key = key,
                       !.invs = Append(@, inv),
                       !.outcome = "error",
                       !.error = Thrown("uncaught", StorageError, a.timeRange)]
     ELSE IF got.found
       THEN [cr EXCEPT !.pc = "done", !.cur = a, !.key = key,
                       !.invs = Append(@, inv),
                       !.outcome = "ok", !.data = got.data]
       ELSE [cr EXCEPT !.pc = "fetch", !.cur = a, !.key = key, !.url = url,
                       !.invs = Append(@, inv),
                       !.requests = Append(@, url),
                       !.timers = @ \cup {[attempt |-> n,
                                           deadline |-> AbortDeadline(t)]}]

\* A fallback that drops the caller's minMagnitude.
FallbackArgsNoMagnitude(a) == Args("week", 0, Undefined, Undefined)

\* Line 133: the fallback invocation.
FallbackArgs(a) == Args("week", a.minMagnitude, Undefined, Undefined)

\* A fallback whose failure is replaced by the historical attempt's error.
PropagateOriginal(cr, thrown) ==
  IF Len(cr.errs) = 2
    THEN Thrown("Failed to fetch earthquake data", cr.errs[1], "custom")
    ELSE thrown

\* `return fetchEarthquakes(...)` inside the catch block: the caller's promise
\* adopts the fallback's rejection.
Propagate(cr, thrown) == thrown

\* The catch block entered with `error`.
Catch(cr, t, ls, error) ==
  LET d == Classify(cr.cur.timeRange, error)
      cr1 == [cr EXCEPT !.errs = Append(@, error)]
  IN IF d.fallback
       THEN Invoke(cr1, t, ls, FallbackArgs(cr1.cur))
       ELSE [cr1 EXCEPT !.pc = "done", !.outcome = "error",
                        !.error = Propagate(cr1, d.thrown)]

\* ProcessBody that caches the decoded body before it is filtered.
ProcessBodyCacheFirst(ls, t, key, timeRange, minMagnitude, body) ==
  LET w == cacheData(ls, t, key, body)
      n == Normalize(timeRange, minMagnitude, body)
  IN [ok |-> n.ok, data |-> n.data, error |-> n.error, items |-> w.items]

\* Lines 89-109 for the decoded body: the filter, then cacheData; the data to
\* return or the exception raised, and the items of localStorage afterwards.
ProcessBody(ls, t, key, timeRange, minMagnitude, body) ==
  LET n == Normalize(timeRange, minMagnitude, body)
  IN IF ~n.ok
       THEN [ok |-> FALSE, data |-> NoData, error |-> n.error,
             items |-> ls.items]
       ELSE LET w == cacheData(ls, t, key, n.data)
            IN IF w.threw
                 THEN [ok |-> FALSE, data |-> NoData, error |-> StorageError,
                       items |-> w.items]
                 ELSE [ok |-> TRUE, data |-> n.data, error |-> NoRawError,
                       items |-> w.items]

\* response.ok
Ok(status) == status >= 200 /\ status <= 299

\* The substrings of `Server responded with ${status}: ${statusText}`.
HttpMarks(status) == IF status = 400 THEN {"400"} ELSE {}

CurrentAttempt(cr) == Len(cr.invs)

CurrentTimer(cr) == {tm \in cr.timers : tm.attempt = CurrentAttempt(cr)}

(***************************************************************************)
(* Inputs.                                                                 *)
(***************************************************************************)
TimeRanges == {"hour", "day", "week", "custom"}
MinMagnitudes == {0, 2}

\* The caller always passes both dates of its date range, in either mode.
ArgsOver(timeRanges, dateRanges) ==
  {Args(tr, m, DateOf(dr[1]), DateOf(dr[2])) :
     tr \in timeRanges, m \in MinMagnitudes, dr \in dateRanges}

\* Arguments of the coarse specification: a range that ends after today.
CoarseArgs == ArgsOver({"day", "week", "custom"}, {<<0 - 1, 1>>})

Statuses == {200, 400, 500}

\* A transport failure: "Failed to fetch" is the message of one engine only.
NetworkMarks == {{"Failed to fetch"}, {}}

\* A SyntaxError of response.json(): its message quotes the position or the
\* start of the body.
SyntaxMarks == {{}, {"400"}, {"400", "orderby"}}

FeatInside == Feature(1, TRUE, 50, 30, "num", 3)
FeatOutside == Feature(2, TRUE, 70, 30, "num", 5)

\* Bodies of the coarse specification.
CoarseBodies ==
  {Body(TRUE, <<FeatInside, FeatOutside>>, TRUE, 2),
   Body(TRUE, <<FeatInside>>, TRUE, 5),
   Body(FALSE, <<>>, TRUE, 0)}

\* Bodies of the expiry specification: two well-formed payloads.
ExpiryBodies ==
  {Body(TRUE, <<FeatInside, FeatOutside>>, TRUE, 2),
   Body(TRUE, <<>>, TRUE, 0)}

\* The records the fine bodies are built from: the corners of the bounding
\* box, one record just outside each side, magnitudes around the thresholds,
\* and the malformed records (no geometry, null magnitude, no magnitude).
Catalog ==
  {Feature(1, TRUE, 44, 25, "num", 2),
   Feature(2, TRUE, 63, 40, "num", 0),
   Feature(3, TRUE, 43, 30, "num", 5),
   Feature(4, TRUE, 64, 30, "num", 5),
   Feature(5, TRUE, 50, 24, "num", 5),
   Feature(6, TRUE, 50, 41, "num", 5),
   Feature(7, TRUE, 50, 30, "num", 1),
   Feature(8, TRUE, 50, 30, "num", 0 - 1),
   Feature(9, FALSE, 0, 0, "num", 4),
   Feature(10, TRUE, 50, 30, "null", 0),
   Feature(11, TRUE, 50, 30, "undef", 0)}

\* The sequences of at most n distinct catalog records.
FeatureSeqs(n) ==
  UNION {{fs \in [1..k -> Catalog] :
            \A i, j \in 1..k : i # j => fs[i].id # fs[j].id} : k \in 0..n}

\* Bodies of the fine specification: every such sequence, with a metadata.count
\* that agrees with it or not, and the bodies lacking features or metadata.
FineBodies ==
  UNION {{Body(TRUE, fs, TRUE, n) : n \in {0, Len(fs), Len(fs) + 1}} :
           fs \in FeatureSeqs(MaxFeatures)}
  \cup {Body(FALSE, <<>>, TRUE, 0), Body(TRUE, <<>>, FALSE, 0)}

FineArgs == ArgsOver(TimeRanges, {<<0 - 1, 0>>})

\* Arguments of the expiry specification: one request per time range.
ExpiryArgs == {a \in FineArgs : a.minMagnitude = 2}

\* Instants of the expiry specification: one second before and at each cache
\* duration, and one second after the shortest.
BoundaryInstants ==
  {0, 299000, 300000, 301000, 899000, 900000, 3599000, 3600000,
   86399000, 86400000}

\* Instants of the coarse specification: the fetch timeout, the week expiry.
CoarseInstants == {0, 30000, 3600000}

(***************************************************************************)
(* Actions.                                                                *)
(***************************************************************************)
\* The component is not part of the specification.
NoUi == [mounted |-> FALSE]

Slots == DOMAIN calls

LS == LocalStorage(storage, cache)

InFlight(c) == calls[c].pc \in {"fetch", "text", "json"}

\* The record of a new call with arguments a in the slot of cr; the timers the
\* earlier calls left pending stay pending.
Fresh(cr, a) ==
  [IdleCall EXCEPT
     !.args = a,
     !.timers = {[attempt |-> 0, deadline |-> tm.deadline] : tm \in cr.timers}]

\* The caller invokes fetchEarthquakes(a) in slot c.
Start(c, a, limit) ==
  /\ started < limit
  /\ ~InFlight(c)
  /\ calls' = [calls EXCEPT ![c] = Invoke(Fresh(@, a), now, LS, a)]
  /\ started' = started + 1
  /\ UNCHANGED <<now, cache, storage, ui>>

\* fetch resolves with a response: clearTimeout, then the status check.
FetchResolves(c, status) ==
  /\ calls[c].pc = "fetch"
  /\ calls' = [calls EXCEPT ![c] =
       [@ EXCEPT !.timers = @ \ CurrentTimer(calls[c]),
                 !.status = status,
                 !.pc = IF Ok(status) THEN "json" ELSE "text"]]
  /\ UNCHANGED <<now, cache, started, storage, ui>>

\* fetch rejects with a transport error: line 79 is skipped.
FetchRejects(c, marks) ==
  /\ calls[c].pc = "fetch"
  /\ calls' = [calls EXCEPT ![c] =
       Catch(@, now, LS, RawError("TypeError", "network", 0, marks))]
  /\ UNCHANGED <<now, cache, started, storage, ui>>

\* A setTimeout callback runs: controller.abort().
TimerFires(c, tm) ==
  /\ tm \in calls[c].timers
  /\ now >= tm.deadline
  /\ LET cr == [calls[c] EXCEPT !.timers = @ \ {tm}]
     IN calls' = [calls EXCEPT ![c] =
          IF cr.pc = "fetch" /\ tm.attempt = CurrentAttempt(cr)
            THEN Catch(cr, now, LS, RawError("AbortError", "abort", 0, {}))
            ELSE cr]
  /\ UNCHANGED <<now, cache, started, storage, ui>>

\* response.text() of a non-2xx response settles; the Error is thrown.
TextSettles(c) ==
  /\ calls[c].pc = "text"
  /\ calls' = [calls EXCEPT ![c] =
       Catch(@, now, LS,
             RawError("Error", "http", calls[c].status,
                      HttpMarks(calls[c].status)))]
  /\ UNCHANGED <<now, cache, started, storage, ui>>

\* response.json() resolves with the decoded body: lines 89-109.
JsonResolves(c, body) ==
  /\ calls[c].pc = "json"
  /\ LET cr == [calls[c] EXCEPT !.bodies = Append(@, body)]
         r == ProcessBody(LS, now, cr.key, cr.cur.timeRange,
                          cr.cur.minMagnitude, body)
         after == LocalStorage(storage, r.items)
     IN /\ cache' = r.items
        /\ calls' = [calls EXCEPT ![c] =
             IF r.ok
               THEN [cr EXCEPT !.pc = "done", !.outcome = "ok",
                               !.data = r.data]
               ELSE Catch(cr, now, after, r.error)]
  /\ UNCHANGED <<now, started, storage, ui>>

\* response.json() rejects: the body is not JSON.
JsonRejects(c, marks) ==
  /\ calls[c].pc = "json"
  /\ calls' = [calls EXCEPT ![c] =
       Catch(@, now, LS, RawError("SyntaxError", "decode", 0, marks))]
  /\ UNCHANGED <<now, cache, started, storage, ui>>

Deadlines == UNION {{tm.deadline : tm \in calls[c].timers} : c \in Slots}

\* Time passes, never beyond a pending timer's deadline.
Tick(instants) ==
  /\ \E t \in instants \cup Deadlines :
       /\ t > now
       /\ \A d \in Deadlines : d >= t
       /\ now' = t
  /\ UNCHANGED <<cache, calls, started, storage, ui>>

(***************************************************************************)
(* Specifications.                                                         *)
(***************************************************************************)
Init ==
  /\ now = 0
  /\ cache = <<>>
  /\ calls = [c \in {1} |-> IdleCall]
  /\ started = 0
  /\ storage = "ok"
  /\ ui = NoUi

Next ==
  \/ \E c \in Slots, a \in CoarseArgs : Start(c, a, MaxCalls)
  \/ \E c \in Slots, s \in Statuses : FetchResolves(c, s)
  \/ \E c \in Slots, m \in NetworkMarks : FetchRejects(c, m)
  \/ \E c \in Slots : \E tm \in calls[c].timers : TimerFires(c, tm)
  \/ \E c \in Slots : TextSettles(c)
  \/ \E c \in Slots, b \in CoarseBodies : JsonResolves(c, b)
  \/ \E c \in Slots, m \in SyntaxMarks : JsonRejects(c, m)
  \/ Tick(CoarseInstants)

Spec == Init /\ [][Next]_vars

\* One load from an empty cache whose upstream answers 200 with any fine body.
NextNorm ==
  \/ \E c \in Slots, a \in FineArgs : Start(c, a, 1)
  \/ \E c \in Slots : FetchResolves(c, 200)
  \/ \E c \in Slots, b \in FineBodies : JsonResolves(c, b)

SpecNorm == Init /\ [][NextNorm]_vars

\* Successive loads whose upstream answers 200, read at the expiry boundaries.
NextCache ==
  \/ \E c \in Slots, a \in ExpiryArgs : Start(c, a, MaxCalls)
  \/ \E c \in Slots : FetchResolves(c, 200)
  \/ \E c \in Slots, b \in ExpiryBodies : JsonResolves(c, b)
  \/ Tick(BoundaryInstants)

SpecCache == Init /\ [][NextCache]_vars

\* An entry a working localStorage would serve to the day feed's loads.
SeedItems ==
  cacheData(LocalStorage("ok", <<>>), 0,
            CacheKey("day", 0, DateOf(0 - 1), DateOf(1)),
            Body(TRUE, <<FeatInside>>, TRUE, 1)).items

\* The loads of the coarse specification over a localStorage that fails on
\* every access, empty or holding an entry it cannot hand out.
InitStorage ==
  /\ now = 0
  /\ cache \in {<<>>, SeedItems}
  /\ calls = [c \in {1} |-> IdleCall]
  /\ started = 0
  /\ storage \in {"throws", "garbled"}
  /\ ui = NoUi

SpecStorage == InitStorage /\ [][Next]_vars

(***************************************************************************)
(* The EarthquakeMap component and the handlers of its sidebar.            *)
(***************************************************************************)
REFRESH_INTERVAL == 5 * 60 * 1000

DEBOUNCE_DELAY == 500

\* The user acts at most this many times.
MaxEvents == 2

\* The component mounts on day 0, so that its first refresh interval elapses
\* 100 ms after midnight UTC.
UiStart == MsPerDay + 100 - REFRESH_INTERVAL

\* Time is followed until the refresh intervals set in the first second
\* have elapsed once.
UiHorizon == UiStart + REFRESH_INTERVAL + 2 * DEBOUNCE_DELAY

\* What the user can enter.
UiTimeRanges == {"hour", "day"}
UiMagnitudes == {0, 2}
UiDates == {DateOf(0 - 91), DateOf(1)}

\* The upstream answers of the component's specification.
UiBodies == {Body(TRUE, <<FeatInside>>, TRUE, 1)}

\* An instant at which something can happen besides the timers' deadlines:
\* midnight, which is also shortly before the first refresh interval elapses.
UiInstants == {MsPerDay}

\* What a render's loadEarthquakeData closes over.
Closure(u) ==
  [timeRange |-> u.timeRange, isHistorical |-> u.isHistorical,
   debouncedMagnitude |-> u.debouncedMagnitude,
   debouncedDateRange |-> u.debouncedDateRange]

\* Lines 69-74: the arguments loadEarthquakeData passes to fetchEarthquakes.
LoadArgs(cl) ==
  Args(IF cl.isHistorical THEN "custom" ELSE cl.timeRange,
       cl.debouncedMagnitude,
       cl.debouncedDateRange.startDate, cl.debouncedDateRange.endDate)

\* The filters prop of the sidebar (lines 190-195).
Filters(u) ==
  [timeRange |-> u.timeRange, minMagnitude |-> u.minMagnitude,
   isHistorical |-> u.isHistorical, dateRange |-> u.dateRange]

DateRange(startDate, endDate, ref) ==
  [startDate |-> startDate, endDate |-> endDate, ref |-> ref]

NoLoad ==
  [active |-> FALSE, by |-> "",
   closure |-> [timeRange |-> "", isHistorical |-> FALSE,
                debouncedMagnitude |-> 0,
                debouncedDateRange |-> DateRange(Undefined, Undefined, 0)],
   asOf |-> NoArgs]

\* The component before it mounts: the initial values of useState (40-54).
\*   dateRange.ref    the identity of the object (setDateRange stores a new one)
\*   magTimer, dateTimer   the deadline of useDebounce's pending timeout
\*   intervals        the setInterval timers not cleared, refreshTimerRef the
\*                    id the ref holds (0: null)
\*   loads            per slot, the call of loadEarthquakeData awaiting
\*                    fetchEarthquakes: its closure, what started it, and the
\*                    filters that were set when it started
\*   shown            the closure of the call that set earthquakes last
\*   entered          the date the user entered last
UiInitial(t, slots) ==
  [mounted |-> FALSE,
   timeRange |-> "day", minMagnitude |-> 2, isHistorical |-> FALSE,
   dateRange |-> DateRange(DateOf(Today(t) - 90), DateOf(Today(t)), 0),
   debouncedMagnitude |-> 2,
   debouncedDateRange |-> DateRange(DateOf(Today(t) - 90), DateOf(Today(t)), 0),
   magTimer |-> {}, dateTimer |-> {},
   earthquakes |-> [has |-> FALSE, data |-> NoData],
   loading |-> TRUE, error |-> "",
   refreshTimerRef |-> 0, intervals |-> {},
   loads |-> [c \in slots |-> NoLoad],
   shown |-> NoLoad.closure,
   events |-> 0,
   entered |-> Undefined]

\* The component, the calls of fetchEarthquakes and their count.
World(u, cs, n) == [ui |-> u, calls |-> cs, started |-> n]

FreeSlots(w) == {c \in DOMAIN w.calls : ~w.ui.loads[c].active}

\* The filters in force: the component's state, not the debounced copies.
ActiveArgs(u) ==
  Args(IF u.isHistorical THEN "custom" ELSE u.timeRange, u.minMagnitude,
       u.dateRange.startDate, u.dateRange.endDate)

\* loadEarthquakeData up to its await (lines 65-74), called through the
\* closure cl: setLoading(true), setError(null), fetchEarthquakes(...).
loadEarthquakeData(w, cl, by) ==
  LET c == CHOOSE c \in FreeSlots(w) : \A d \in FreeSlots(w) : c <= d
      a == LoadArgs(cl)
  IN World([w.ui EXCEPT !.loading = TRUE, !.error = "",
                        !.loads[c] = [active |-> TRUE, by |-> by,
                                      closure |-> cl,
                                      asOf |-> ActiveArgs(w.ui)]],
           [w.calls EXCEPT ![c] = Invoke(Fresh(@, a), now, LS, a)],
           w.started + 1)

\* loadEarthquakeData after its await (lines 76-110) for the settled call cr.
Continue(u, c, cr) ==
  LET valid == cr.outcome = "ok" /\ cr.data.hasFeatures
      u1 == IF valid
              THEN [u EXCEPT !.earthquakes = [has |-> TRUE, data |-> cr.data],
                             !.shown = u.loads[c].closure]
            ELSE IF cr.outcome = "ok"
              THEN [u EXCEPT !.error = "Invalid data received from the server"]
              ELSE [u EXCEPT !.error = cr.error.msg]
  IN [u1 EXCEPT !.loading = FALSE, !.loads[c] = NoLoad]

\* An effect cleanup that clears nothing.
CleanupNothing(u) == u

\* The cleanup of the effect (lines 127-131).
Cleanup(u) ==
  IF u.refreshTimerRef # 0
    THEN [u EXCEPT !.intervals = {i \in @ : i.id # u.refreshTimerRef}]
    ELSE u

\* refreshTimerRef.current = setInterval(() => loadEarthquakeData(false), ...)
\* with the loadEarthquakeData of closure cl (lines 119-124 and 168-173).
SetRefreshInterval(u, cl) ==
  LET id == CHOOSE n \in 1..(Cardinality(u.intervals) + 1) :
              \A i \in u.intervals : i.id # n
  IN [u EXCEPT !.intervals = @ \cup {[id |-> id,
                                      fireAt |-> now + REFRESH_INTERVAL,
                                      closure |-> cl]},
               !.refreshTimerRef = id]

\* The effect of lines 114-132 runs: the cleanup of its previous run, the
\* load, the interval.
RunEffect(w, first) ==
  LET u1 == IF first THEN w.ui ELSE Cleanup(w.ui)
      cl == Closure(u1)
      w1 == loadEarthquakeData([w EXCEPT !.ui = u1], cl, "effect")
  IN IF u1.isHistorical
       THEN w1
       ELSE [w1 EXCEPT !.ui = SetRefreshInterval(@, cl)]

\* The dependencies of the effect (line 132).
Deps(u) ==
  <<u.timeRange, u.debouncedMagnitude, u.isHistorical, u.debouncedDateRange>>

\* useDebounce(value, 500) after a render in which value changed: the pending
\* timeout is replaced.
Debounce(timer, changed) ==
  IF changed THEN {now + DEBOUNCE_DELAY} ELSE timer

\* The render that follows the state changes of a handler, old being the
\* state before them: the effects of the two useDebounce hooks, then the
\* effect of lines 114-132 if a dependency changed.
Render(w, old) ==
  LET u == [w.ui EXCEPT
              !.magTimer = Debounce(@, w.ui.minMagnitude # old.minMagnitude),
              !.dateTimer = Debounce(@, w.ui.dateRange # old.dateRange)]
      w1 == [w EXCEPT !.ui = u]
  IN IF Deps(u) # Deps(old) THEN RunEffect(w1, FALSE) ELSE w1

\* filters.dateRange.endDate > today ? today : filters.dateRange.endDate
\* (part_002 lines 156-159), the dates compared as strings.
ClampEnd(t, endDate) ==
  IF endDate[1] > Today(t) THEN DateOf(Today(t)) ELSE endDate

\* handleFilterChange (lines 144-175), called from the render with state
\* w.ui, and the render that follows.
handleFilterChange(w, f) ==
  LET u0 == w.ui
      u1 == IF u0.refreshTimerRef # 0
              THEN [u0 EXCEPT !.intervals =
                                 {i \in @ : i.id # u0.refreshTimerRef},
                              !.refreshTimerRef = 0]
              ELSE u0
      u2 == [u1 EXCEPT !.timeRange = f.timeRange,
                       !.minMagnitude = f.minMagnitude,
                       !.isHistorical = f.isHistorical,
                       !.dateRange =
                          DateRange(f.dateRange.startDate,
                                    ClampEnd(now, f.dateRange.endDate),
                                    u0.events + 1)]
      u3 == IF ~f.isHistorical
              THEN SetRefreshInterval(u2, Closure(u0))
              ELSE u2
  IN Render([w EXCEPT !.ui = u3], u0)

\* handleDateChange of the sidebar (lines 143-166): the filters it hands to
\* onFilterChange.
handleDateChange(filters, t, field, value) ==
  LET v1 == IF field = "endDate" /\ value[1] > Today(t)
              THEN DateOf(Today(t))
              ELSE value
      v2 == IF field = "startDate" /\ v1[1] > filters.dateRange.endDate[1]
              THEN filters.dateRange.endDate
              ELSE v1
  IN [filters EXCEPT !.dateRange[field] = v2]

\* The state of the component after a user's action counted.
Counted(w) == [w EXCEPT !.ui.events = @ + 1]

\* No call of loadEarthquakeData has its continuation due: the continuation
\* runs as a microtask, before any timer, event or response is handled.
Quiescent ==
  \A c \in Slots : ui.loads[c].active => calls[c].pc # "done"

Here == World(ui, calls, started)

Becomes(w) ==
  /\ ui' = w.ui
  /\ calls' = w.calls
  /\ started' = w.started
  /\ UNCHANGED <<now, cache, storage>>

\* The component mounts: the first run of the effect.
Mount ==
  /\ ~ui.mounted
  /\ Becomes(RunEffect([Here EXCEPT !.ui.mounted = TRUE], TRUE))

\* A handler of the sidebar calls onFilterChange(f).
FilterChange(f) ==
  /\ ui.mounted
  /\ Quiescent
  /\ ui.events < MaxEvents
  /\ (f.timeRange # ui.timeRange \/ f.isHistorical # ui.isHistorical)
       => FreeSlots(Here) # {}
  /\ Becomes(Counted(handleFilterChange(Here, f)))

\* The user clicks one of the time range buttons (shown in real-time mode).
ClickTimeRange(v) ==
  /\ ~ui.isHistorical
  /\ FilterChange([Filters(ui) EXCEPT !.timeRange = v])

\* The user moves the magnitude slider.
SlideMagnitude(v) ==
  /\ v # ui.minMagnitude
  /\ FilterChange([Filters(ui) EXCEPT !.minMagnitude = v])

\* The user flips the historical switch.
ToggleHistorical ==
  FilterChange([Filters(ui) EXCEPT !.isHistorical = ~ui.isHistorical])

\* The user enters a date in one of the date inputs (shown in historical
\* mode).
EnterDate(field, v) ==
  /\ ui.isHistorical
  /\ ui.mounted
  /\ Quiescent
  /\ ui.events < MaxEvents
  /\ Becomes(Counted(
       [handleFilterChange(Here, handleDateChange(Filters(ui), now, field, v))
          EXCEPT !.ui.entered = v]))

\* handleManualRefresh, or the Retry button of the error banner.
ManualRefresh ==
  /\ ui.mounted
  /\ Quiescent
  /\ ui.events < MaxEvents
  /\ ~ui.loading \/ ui.error # ""
  /\ FreeSlots(Here) # {}
  /\ Becomes(Counted(loadEarthquakeData(Here, Closure(ui), "manual")))

\* The timeout of useDebounce(minMagnitude, 500) runs.
DebounceMagnitudeFires ==
  /\ Quiescent
  /\ \E d \in ui.magTimer : now >= d
  /\ ui.minMagnitude # ui.debouncedMagnitude => FreeSlots(Here) # {}
  /\ LET u == [ui EXCEPT !.magTimer = {},
                         !.debouncedMagnitude = ui.minMagnitude]
     IN Becomes(IF Deps(u) # Deps(ui)
                  THEN RunEffect([Here EXCEPT !.ui = u], FALSE)
                  ELSE [Here EXCEPT !.ui = u])

\* The timeout of useDebounce(dateRange, 500) runs; a timeout of the other
\* hook that is due as well was set first and runs first.
DebounceDateRangeFires ==
  /\ Quiescent
  /\ \E d \in ui.dateTimer : now >= d /\ \A e \in ui.magTimer : e > d
  /\ FreeSlots(Here) # {}
  /\ LET u == [ui EXCEPT !.dateTimer = {},
                         !.debouncedDateRange = ui.dateRange]
     IN Becomes(IF Deps(u) # Deps(ui)
                  THEN RunEffect([Here EXCEPT !.ui = u], FALSE)
                  ELSE [Here EXCEPT !.ui = u])

\* A refresh interval elapses: its callback calls loadEarthquakeData(false).
IntervalFires(i) ==
  /\ Quiescent
  /\ i \in ui.intervals
  /\ now >= i.fireAt
  /\ FreeSlots(Here) # {}
  /\ LET u == [ui EXCEPT !.intervals =
                 (@ \ {i}) \cup {[i EXCEPT !.fireAt = @ + REFRESH_INTERVAL]}]
     IN Becomes(loadEarthquakeData([Here EXCEPT !.ui = u], i.closure, "tick"))

\* The promise of fetchEarthquakes has settled: loadEarthquakeData resumes.
Settle(c) ==
  /\ ui.loads[c].active
  /\ calls[c].pc = "done"
  /\ ui' = Continue(ui, c, calls[c])
  /\ UNCHANGED <<now, cache, calls, started, storage>>

UiDeadlines ==
  ui.magTimer \cup ui.dateTimer \cup {i.fireAt : i \in ui.intervals}

\* Time passes, never beyond the deadline of a pending timer; the upstream
\* answers before the abort timer of a request is due.
UiTick ==
  /\ ui.mounted
  /\ Quiescent
  /\ \E t \in UiInstants \cup UiDeadlines :
       /\ t > now
       /\ t <= UiHorizon
       /\ \A d \in UiDeadlines : d >= t
       /\ \A d \in Deadlines : d > t
       /\ now' = t
  /\ UNCHANGED <<cache, calls, started, storage, ui>>

InitUi ==
  /\ now = UiStart
  /\ cache = <<>>
  /\ calls = [c \in {1, 2} |-> IdleCall]
  /\ started = 0
  /\ storage = "ok"
  /\ ui = UiInitial(UiStart, {1, 2})

NextUi ==
  \/ Mount
  \/ \E v \in UiTimeRanges : ClickTimeRange(v)
  \/ \E v \in UiMagnitudes : SlideMagnitude(v)
  \/ ToggleHistorical
  \/ \E field \in {"startDate", "endDate"}, v \in UiDates : EnterDate(field, v)
  \/ ManualRefresh
  \/ DebounceMagnitudeFires
  \/ DebounceDateRangeFires
  \/ \E i \in ui.intervals : IntervalFires(i)
  \/ \E c \in Slots : Settle(c)
  \/ Quiescent /\ \E c \in Slots : FetchResolves(c, 200)
  \/ Quiescent /\ \E c \in Slots, b \in UiBodies : JsonResolves(c, b)
  \/ UiTick

SpecUi == InitUi /\ [][NextUi]_vars

(***************************************************************************)
(* Properties.                                                             *)
(***************************************************************************)
RealTimeRanges == {"hour", "day", "week"}

\* The record lies in longitude [44, 63] and latitude [25, 40] and has a
\* magnitude, which is at least m.
Qualifies(f, m) ==
  /\ f.hasGeom
  /\ 44 <= f.lon /\ f.lon <= 63
  /\ 25 <= f.lat /\ f.lat <= 40
  /\ f.magKind = "num"
  /\ f.mag >= m

\* The load in slot c has returned a collection it fetched from upstream.
ReturnedFetched(c) ==
  /\ calls[c].pc = "done"
  /\ calls[c].outcome = "ok"
  /\ ~calls[c].invs[Len(calls[c].invs)].found

NoNullMagnitude(body) ==
  \A i \in 1..Len(body.features) : body.features[i].magKind # "null"

ExpiryMs(timeRange) ==
  CASE timeRange = "hour" -> 300000
    [] timeRange = "day" -> 900000
    [] timeRange = "week" -> 3600000
    [] timeRange = "custom" -> 86400000

\* The cache read of an invocation found an entry that had not expired.
Unexpired(inv) ==
  inv.had /\ inv.at - inv.timestamp < ExpiryMs(inv.args.timeRange)

\* C2: an invocation of load (the caller's or the fallback's) that finds an
\* unexpired entry under its cache key is the last one of the call; the call
\* returns the stored payload and issues no upstream request and enters no
\* fallback after that read.
C2_HitReturnsStored ==
  \A c \in Slots :
    \A i \in 1..Len(calls[c].invs) :
      Unexpired(calls[c].invs[i])
        => /\ i = Len(calls[c].invs)
           /\ calls[c].pc = "done"
           /\ calls[c].outcome = "ok"
           /\ calls[c].data = calls[c].invs[i].stored
           /\ Len(calls[c].requests) = i - 1
           /\ Len(calls[c].errs) = i - 1

\* A load was served a non-empty collection from the cache without a request.
C2_Witness ==
  \E c \in Slots :
    /\ Len(calls[c].invs) = 1
    /\ Unexpired(calls[c].invs[1])
    /\ calls[c].outcome = "ok"
    /\ calls[c].requests = <<>>
    /\ Len(calls[c].data.features) > 0
    /\ calls[c].invs[1].at > calls[c].invs[1].timestamp

\* C3: a cache entry stored at T is returned by a read at `now` if and only if
\* now - T is less than the expiry of the read's category (5 min, 15 min,
\* 60 min, 24 h).
C3_ExpiryBoundary ==
  \A c \in Slots :
    \A i \in 1..Len(calls[c].invs) :
      LET inv == calls[c].invs[i]
      IN inv.had =>
           (inv.found <=> inv.at - inv.timestamp < ExpiryMs(inv.args.timeRange))

\* An Hour entry was read exactly 300 s after it was stored, and not returned.
C3_Witness ==
  \E c \in Slots :
    \E i \in 1..Len(calls[c].invs) :
      LET inv == calls[c].invs[i]
      IN /\ inv.args.timeRange = "hour"
         /\ inv.had
         /\ inv.at - inv.timestamp = 300000
         /\ ~inv.found

\* C4: every collection load returns, fetched or cached, in either mode, has
\* metadata.count equal to the number of its events.
C4_CountMatchesEvents ==
  \A c \in Slots :
    (calls[c].pc = "done" /\ calls[c].outcome = "ok")
      => calls[c].data.count = Len(calls[c].data.features)

\* The first attempt of a historical load failed with an error that is not an
\* AbortError and whose message contains neither "Failed to fetch" nor "400".
FallbackEligible(e) ==
  /\ e.name # "AbortError"
  /\ "Failed to fetch" \notin e.marks
  /\ "400" \notin e.marks

WeekRetry(cr) == Args("week", cr.args.minMagnitude, <<>>, <<>>)

WeekFeed ==
  [api |-> "feed", range |-> "week", starttime |-> <<>>, endtime |-> <<>>,
   minmagnitude |-> <<>>, bounds |-> <<>>]

\* C5 as claimed: a historical load whose upstream attempt fails (timeout,
\* network failure, any non-2xx status, undecodable body) is followed by
\* exactly one retry as RealTime/Week with the original minMagnitude and
\* without the date range.
C5_RetryOnAnyFailure ==
  \A c \in Slots :
    LET cr == calls[c]
    IN (/\ cr.args.timeRange = "custom"
        /\ Len(cr.errs) >= 1
        /\ cr.errs[1].origin \in {"abort", "network", "http", "decode"})
       => /\ Len(cr.invs) = 2
          /\ cr.invs[2].args = WeekRetry(cr)

\* C5 as amended: after a failed historical attempt the RealTime/Week
\* invocation (original minMagnitude, no date range) is entered exactly once
\* if the error is fallback-eligible, and then issues at most one request, to
\* the week feed; a timeout, a "Failed to fetch" failure and an error whose
\* message contains "400" are surfaced without any retry.
C5_RetryOnOtherFailures ==
  \A c \in Slots :
    LET cr == calls[c]
    IN (cr.args.timeRange = "custom" /\ Len(cr.errs) >= 1)
       => IF FallbackEligible(cr.errs[1])
            THEN /\ Len(cr.invs) = 2
                 /\ cr.invs[2].args = WeekRetry(cr)
                 /\ Len(cr.requests) <= 2
                 /\ Len(cr.requests) = 2 => cr.requests[2] = WeekFeed
                 /\ cr.invs[2].found => Len(cr.requests) = 1
            ELSE /\ Len(cr.invs) = 1
                 /\ Len(cr.requests) = 1
                 /\ cr.pc = "done"
                 /\ cr.outcome = "error"

\* A historical load at minMagnitude 2 failed with HTTP 500 and its retry
\* fetched the week feed.
C5_Witness ==
  \E c \in Slots :
    /\ calls[c].args.timeRange = "custom"
    /\ calls[c].args.minMagnitude = 2
    /\ Len(calls[c].errs) >= 1
    /\ calls[c].errs[1].origin = "http"
    /\ calls[c].errs[1].status = 500
    /\ Len(calls[c].requests) = 2

\* C6: a real-time load issues at most one upstream request and never enters
\* a fallback; a historical load issues at most two requests, the second to
\* the week feed, and enters at most one fallback.
C6_SingleShotFallback ==
  \A c \in Slots :
    LET cr == calls[c]
    IN IF cr.args.timeRange = "custom"
         THEN /\ Len(cr.invs) <= 2
              /\ Len(cr.requests) <= 2
              /\ Len(cr.requests) = 2 => cr.requests[2] = WeekFeed
              /\ Len(cr.errs) <= 2
         ELSE /\ Len(cr.invs) <= 1
              /\ Len(cr.requests) <= 1
              /\ Len(cr.errs) <= 1

\* A historical load ended after two failed requests.
C6_Witness ==
  \E c \in Slots :
    /\ calls[c].pc = "done"
    /\ calls[c].args.timeRange = "custom"
    /\ Len(calls[c].requests) = 2
    /\ Len(calls[c].errs) = 2

\* The historical attempt and its fallback both failed.
BothFailed(c) ==
  /\ calls[c].pc = "done"
  /\ calls[c].outcome = "error"
  /\ calls[c].args.timeRange = "custom"
  /\ Len(calls[c].errs) = 2

\* C7: when the historical attempt and its fallback both fail, the error load
\* surfaces is the one the fallback invocation threw for the fallback's error.
C7_RetryErrorSurfaced ==
  \A c \in Slots :
    BothFailed(c)
      => /\ calls[c].error.by = "week"
         /\ calls[c].error.detail \in {NoRawError, calls[c].errs[2]}
         /\ calls[c].errs[2].name = "AbortError"
              <=> calls[c].error.msg = "Request timed out"

\* The historical attempt failed with HTTP 500 and the fallback timed out.
C7_Witness ==
  \E c \in Slots :
    /\ BothFailed(c)
    /\ calls[c].errs[1].origin = "http"
    /\ calls[c].errs[2].name = "AbortError"

\* C8 as claimed: when both attempts fail, load surfaces the original error of
\* the historical attempt.
C8_OriginalErrorSurfaced ==
  \A c \in Slots :
    BothFailed(c)
      => /\ calls[c].error.by = "custom"
         /\ calls[c].error.detail = calls[c].errs[1]

\* C8 as amended: when both attempts fail, load never surfaces the original
\* error of the historical attempt: no error of the historical invocation is
\* thrown, and the surfaced message embeds the original error only where the
\* fallback's error is the same.
C8_OriginalErrorDropped ==
  \A c \in Slots :
    BothFailed(c)
      => /\ calls[c].error.by # "custom"
         /\ calls[c].error.detail = calls[c].errs[1]
              => calls[c].errs[1] = calls[c].errs[2]

\* The historical attempt failed on an undecodable body and the fallback on
\* HTTP 500, whose message is surfaced.
C8_Witness ==
  \E c \in Slots :
    /\ BothFailed(c)
    /\ calls[c].errs[1].origin = "decode"
    /\ calls[c].errs[2].origin = "http"
    /\ calls[c].error.detail = calls[c].errs[2]

\* C9: a load whose upstream answered 2xx with a body that has no features
\* sequence ends in failure, in either mode.
C9_NoFeaturesFails ==
  \A c \in Slots :
    (/\ calls[c].pc = "done"
     /\ \E i \in 1..Len(calls[c].bodies) : ~calls[c].bodies[i].hasFeatures)
      => calls[c].outcome = "error"

\* The record has coordinates and a numeric magnitude.
WellFormed(f) == f.hasGeom /\ f.magKind = "num"

\* C10: a load whose payload has a features sequence in which some records
\* are malformed succeeds, and returns exactly the well-formed records (in
\* real-time mode, those of them that qualify), for every minMagnitude.
C10_MalformedDropped ==
  \A c \in Slots :
    LET cr == calls[c]
    IN (/\ cr.pc = "done"
        /\ Len(cr.bodies) = 1
        /\ cr.bodies[1].hasFeatures
        /\ cr.bodies[1].hasMetadata)
       => /\ cr.outcome = "ok"
          /\ cr.data.features =
               SelectSeq(cr.bodies[1].features,
                         LAMBDA f :
                           /\ WellFormed(f)
                           /\ cr.args.timeRange \in RealTimeRanges
                                => Qualifies(f, cr.args.minMagnitude))

\* C11: a step changes the contents of the cache only when it completes an
\* invocation with success; a load that ends in failure, after one attempt or
\* after a failed fallback, has therefore left the cache as it found it.
C11_FailureLeavesCache ==
  [][cache' # cache =>
       \E c \in Slots : /\ calls[c].pc = "json"
                        /\ calls'[c].pc = "done"
                        /\ calls'[c].outcome = "ok"]_vars

\* A historical load has failed, fallback included, over a non-empty cache.
C11_Witness ==
  \E c \in Slots : /\ calls[c].pc = "done"
                   /\ calls[c].outcome = "error"
                   /\ Len(calls[c].errs) = 2
                   /\ cache # <<>>

\* C12 (as stated): after a load has returned successfully from a cache miss,
\* the cache holds under the key of the load's own arguments an entry whose
\* payload is the returned collection and which is read with the expiry of
\* the load's category; fallback successes included.
C12_OwnKeyHoldsResult ==
  \A c \in Slots :
    LET cr == calls[c]
        k == CacheKey(cr.args.timeRange, cr.args.minMagnitude,
                      cr.args.startDate, cr.args.endDate)
    IN (cr.pc = "done" /\ cr.outcome = "ok" /\ ~cr.invs[1].found)
       => /\ k \in DOMAIN cache
          /\ JSONparse(cache[k]).data = cr.data
          /\ getCachedData(LS, now, k, Category(cr.args.timeRange)).found
               <=> now - JSONparse(cache[k]).timestamp
                     < ExpiryMs(cr.args.timeRange)

\* C12 (amended): after a load has returned successfully, the cache holds
\* under the key of the invocation that produced the result (the load's own
\* key, or the key of the week feed with empty dates after a fallback) an
\* entry whose payload is the returned collection, written during that
\* invocation if it fetched, and read with the expiry of that invocation's
\* category; a load that went through the fallback has written nothing under
\* its own key.
C12_ProducerKeyHoldsResult ==
  \A c \in Slots :
    LET cr == calls[c]
        k == CacheKey(cr.args.timeRange, cr.args.minMagnitude,
                      cr.args.startDate, cr.args.endDate)
        last == cr.invs[Len(cr.invs)]
    IN (cr.pc = "done" /\ cr.outcome = "ok" /\ ~cr.invs[1].found)
       => /\ cr.key = last.key
          /\ cr.key \in DOMAIN cache
          /\ JSONparse(cache[cr.key]).data = cr.data
          /\ ~last.found => JSONparse(cache[cr.key]).timestamp >= last.at
          /\ getCachedData(LS, now, cr.key, Category(cr.cur.timeRange)).found
               <=> now - JSONparse(cache[cr.key]).timestamp
                     < ExpiryMs(cr.cur.timeRange)
          /\ Len(cr.invs) = 1 => cr.key = k
          /\ Len(cr.invs) = 2 =>
               /\ cr.key = CacheKey("week", cr.args.minMagnitude,
                                    Undefined, Undefined)
               /\ cr.key # k
               /\ cr.invs[1].had <=> k \in DOMAIN cache
               /\ cr.invs[1].had =>
                    JSONparse(cache[k]).timestamp = cr.invs[1].timestamp

\* A historical load has succeeded through a fallback that fetched the week
\* feed, and the entry of the week feed is in the cache.
C12_Witness ==
  \E c \in Slots :
    /\ calls[c].pc = "done"
    /\ calls[c].outcome = "ok"
    /\ Len(calls[c].invs) = 2
    /\ Len(calls[c].requests) = 2
    /\ calls[c].key \in DOMAIN cache

\* A working localStorage that holds nothing.
EmptyStorage == LocalStorage("ok", <<>>)

\* The exceptions the upstream exchange can raise in the catch block.
FetchErrors ==
  {RawError("AbortError", "abort", 0, {}), TypeErrorRaised}
    \cup {RawError("TypeError", "network", 0, m) : m \in NetworkMarks}
    \cup {RawError("SyntaxError", "decode", 0, m) : m \in SyntaxMarks}
    \cup {RawError("Error", "http", s, HttpMarks(s)) : s \in Statuses \ {200}}

\* C13: over a localStorage whose every read throws or yields unparsable
\* text and whose every write throws, each step of load does what it does
\* over a working, empty localStorage: entering an invocation (the caller's
\* or the fallback's) misses and goes upstream, a decoded body gives the same
\* collection or the same exception and changes no item, the catch block
\* gives the same decision; and no exception of the storage is among the
\* errors caught or surfaced.
C13_CacheFailuresInvisible ==
  \A c \in Slots :
    LET cr == calls[c]
    IN /\ \A a \in CoarseArgs :
            Invoke(IdleCall, now, LS, a) = Invoke(IdleCall, now, EmptyStorage, a)
       /\ \A i \in 1..Len(cr.invs) : ~cr.invs[i].found
       /\ Len(cr.requests) = Len(cr.invs)
       /\ cr.pc = "json" =>
            \A b \in CoarseBodies :
              LET r == ProcessBody(LS, now, cr.key, cr.cur.timeRange,
                                   cr.cur.minMagnitude, b)
                  e == ProcessBody(EmptyStorage, now, cr.key, cr.cur.timeRange,
                                   cr.cur.minMagnitude, b)
              IN /\ r.ok = e.ok /\ r.data = e.data /\ r.error = e.error
                 /\ r.items = cache
       /\ cr.pc \in {"fetch", "text", "json"} =>
            \A e \in FetchErrors :
              Catch(cr, now, LS, e) = Catch(cr, now, EmptyStorage, e)
       /\ \A i \in 1..Len(cr.errs) : cr.errs[i].origin # "storage"
       /\ cr.error.detail.origin # "storage"

\* Over the failing localStorage a load of the day feed has fetched and
\* returned although an entry lies under its key, and a historical load has
\* returned the week feed through the fallback.
C13_Witness ==
  /\ storage # "ok"
  /\ \E c \in Slots :
       /\ calls[c].pc = "done"
       /\ calls[c].outcome = "ok"
       /\ \/ calls[c].key \in DOMAIN cache /\ Len(calls[c].requests) = 1
          \/ Len(calls[c].requests) = 2

\* C17: a request is never left waiting for its response more than 30 seconds
\* after it was made; the abort error is raised only for a request that is
\* still waiting for its response, not before 30 seconds have passed since
\* it was made, and it ends the load with the timeout error.
C17_AbortAtThirtySeconds ==
  [][\A c \in Slots :
       LET cr == calls[c]
           nx == calls'[c]
       IN /\ nx.pc = "fetch" => now' <= nx.invs[Len(nx.invs)].at + 30000
          /\ (/\ Len(nx.errs) = Len(cr.errs) + 1
              /\ nx.errs[Len(nx.errs)].name = "AbortError")
               => /\ cr.pc = "fetch"
                  /\ now >= cr.invs[Len(cr.invs)].at + 30000
                  /\ nx.pc = "done"
                  /\ nx.outcome = "error"
                  /\ nx.error.msg = "Request timed out"]_vars

\* A load has ended with the timeout error, 30 seconds after its request.
C17_Witness ==
  \E c \in Slots :
    /\ calls[c].pc = "done"
    /\ calls[c].error.msg = "Request timed out"
    /\ now = calls[c].invs[Len(calls[c].invs)].at + 30000

\* C14: every historical query sent upstream has starttime not later than
\* endtime.
C14_StartNotAfterEnd ==
  \A c \in Slots :
    \A i \in 1..Len(calls[c].requests) :
      LET url == calls[c].requests[i]
      IN url.api = "query" => url.starttime[1] <= url.endtime[1]

\* C15: at every instant, for every end date, the clamp of handleFilterChange,
\* the clamp of the sidebar's handleDateChange and the clamp of the query
\* builder agree: today for an end date later than today, the end date itself
\* otherwise; and each of them leaves a clamped date as it is.
C15_ClampsAgree ==
  \A d \in UiDates \cup {DateOf(Today(now) - 1), DateOf(Today(now)),
                         DateOf(Today(now) + 1), DateOf(Today(now) + 2)} :
    LET today == DateOf(Today(now))
        p == ClampEnd(now, d)
        s == handleDateChange(Filters(ui), now, "endDate", d).dateRange.endDate
        b == ValidEndDate(now, d)
    IN /\ d[1] > today[1] => p = today /\ s = today /\ b = today
       /\ d[1] <= today[1] => p = d /\ s = d /\ b = d
       /\ ClampEnd(now, p) = p /\ ValidEndDate(now, p) = p
       /\ ClampEnd(now, b) = b /\ ValidEndDate(now, b) = b

\* The user has entered an end date later than today, the component holds
\* today as the end date, and a historical query with that end has been sent.
C15_Witness ==
  /\ ui.entered # Undefined
  /\ ui.entered[1] > Today(now)
  /\ ui.dateRange.endDate = DateOf(Today(now))
  /\ \E c \in Slots :
       /\ Len(calls[c].requests) = 1
       /\ calls[c].requests[1].api = "query"
       /\ calls[c].requests[1].endtime = DateOf(Today(now))

\* What the key is to depend on: the mode, the time range or the dates, and
\* the minimum magnitude.
Triple(key) ==
  IF key[2] = "custom"
    THEN <<"Historical", <<key[4], key[5]>>, key[3]>>
    ELSE <<"RealTime", key[2], key[3]>>

\* C16: the keys under which requests have been cached are determined by the
\* requests' (mode, time range or dates, minMagnitude): two requests with the
\* same triple have the same key, two with different minMagnitude do not.
C16_KeyIsFunctionOfTriple ==
  \A k1, k2 \in DOMAIN cache :
    /\ Triple(k1) = Triple(k2) => k1 = k2
    /\ k1[3] # k2[3] => k1 # k2

\* C18: when no load is pending and no debounce is running, the collection
\* on screen is the one loaded for the filters that are set.
C18_LatestFilterShown ==
  (/\ ui.mounted
   /\ \A c \in Slots : ~ui.loads[c].active
   /\ ui.magTimer = {} /\ ui.dateTimer = {}
   /\ ui.earthquakes.has
   /\ ui.error = "")
    => LoadArgs(ui.shown) = ActiveArgs(ui)

\* C19: at most one refresh interval is set, none in historical mode, and a
\* load started by a refresh interval is called with the filters that were
\* set when the interval elapsed.
C19_OneCurrentTimer ==
  /\ Cardinality(ui.intervals) <= 1
  /\ ui.isHistorical => ui.intervals = {}
  /\ \A c \in Slots :
       (ui.loads[c].active /\ ui.loads[c].by = "tick")
         => LoadArgs(ui.loads[c].closure) = ui.loads[c].asOf

\* After the user has changed a filter, a refresh interval has elapsed and
\* its load is pending.
C19_Witness ==
  /\ ui.events >= 1
  /\ \E c \in Slots : /\ ui.loads[c].active
                      /\ ui.loads[c].by = "tick"
                      /\ ui.loads[c].asOf # ActiveArgs(UiInitial(UiStart, {1, 2}))

\* C20: a load started in real-time mode by a refresh interval or by a manual
\* refresh has sent a request upstream.
C20_RefreshGoesUpstream ==
  \A c \in Slots :
    (/\ ui.loads[c].active
     /\ ui.loads[c].by \in {"tick", "manual"}
     /\ ~ui.loads[c].closure.isHistorical)
      => Len(calls[c].requests) >= 1

(***************************************************************************)
(* Error taxonomy, fallback rule and cache contents (C21 - C24).           *)
(***************************************************************************)
\* The kind of the taxonomy a cause belongs to, by the place the raw error
\* came from.
CauseKind(e) ==
  CASE e.origin = "abort" -> "Timeout"
    [] e.origin = "network" -> "Network"
    [] e.origin = "http" -> "HttpError"
    [] e.origin \in {"decode", "shape"} -> "DecodeError"
    [] OTHER -> "none"

\* The kind a caller can read off the error it receives: the message
\* template, and for the generic template the error whose message it embeds.
SurfacedKind(thrown) ==
  CASE thrown.msg = "Request timed out" -> "Timeout"
    [] thrown.msg = "Network error" -> "Network"
    [] thrown.msg \in {"API parameter error", "Invalid date range",
                       "API error"} -> "HttpError"
    [] thrown.msg = "Failed to fetch earthquake data" ->
         CauseKind(thrown.detail)
    [] OTHER -> "none"

\* C21: every failed load surfaces the one kind of Timeout, Network,
\* HttpError, DecodeError that matches the cause of the failure (the last
\* error caught), so two different causes never surface as the same kind.
C21_KindMatchesCause ==
  \A c \in Slots :
    LET cr == calls[c]
    IN (cr.pc = "done" /\ cr.outcome = "error" /\ Len(cr.errs) >= 1)
       => SurfacedKind(cr.error) = CauseKind(cr.errs[Len(cr.errs)])

\* The branch of the catch block an error takes, by the tests of lines
\* 113-127: the error's name, then the substrings of its message.
ClassifiedAs(e) ==
  IF e.name = "AbortError" THEN "timeout"
  ELSE IF "Failed to fetch" \in e.marks THEN "network"
  ELSE IF "400" \in e.marks THEN "400"
  ELSE "other"

\* C22: in historical mode a failure classified as timeout, as network
\* failure or as HTTP 400 ends the load with that error and no fallback
\* invocation; every other failure enters the RealTime/Week fallback.
C22_FallbackOnlyForOthers ==
  \A c \in Slots :
    LET cr == calls[c]
    IN (cr.args.timeRange = "custom" /\ Len(cr.errs) >= 1)
       => IF ClassifiedAs(cr.errs[1]) = "other"
            THEN /\ Len(cr.invs) = 2
                 /\ cr.invs[2].args.timeRange = "week"
                 /\ cr.cur.timeRange = "week"
            ELSE /\ Len(cr.invs) = 1
                 /\ cr.pc = "done"
                 /\ cr.outcome = "error"
                 /\ cr.error.by = "custom"
                 /\ cr.error.msg =
                      CASE ClassifiedAs(cr.errs[1]) = "timeout" ->
                             "Request timed out"
                        [] ClassifiedAs(cr.errs[1]) = "network" ->
                             "Network error"
                        [] "orderby" \in cr.errs[1].marks ->
                             "API parameter error"
                        [] OTHER -> "Invalid date range"

\* A historical load whose body could not be decoded has returned the
\* collection of its week fallback.
C22_Witness ==
  \E c \in Slots :
    /\ calls[c].args.timeRange = "custom"
    /\ Len(calls[c].errs) = 1
    /\ calls[c].errs[1].origin = "decode"
    /\ calls[c].pc = "done"
    /\ calls[c].outcome = "ok"
    /\ Len(calls[c].requests) = 2

\* Historical requests whose end date is today, tomorrow or the day after:
\* all three resolve to the query that ends today.
ClampArgs == ArgsOver({"custom"}, {<<0 - 1, 0>>, <<0 - 1, 1>>, <<0 - 1, 2>>})

\* One second: later than a write, earlier than every expiry.
ClampInstants == {1000}

\* Successive historical loads with the three end dates; upstream answers 200.
NextClamp ==
  \/ \E c \in Slots, a \in ClampArgs : Start(c, a, MaxCalls)
  \/ \E c \in Slots : FetchResolves(c, 200)
  \/ \E c \in Slots, b \in ExpiryBodies : JsonResolves(c, b)
  \/ Tick(ClampInstants)

SpecClamp == Init /\ [][NextClamp]_vars

\* The upstream query a cache key's filters resolve to at instant t.
QueryOfKey(t, key) == BuildUrl(t, key[2], key[3], key[4], key[5])

\* C23: a historical request is served from the cache whenever the cache
\* holds an unexpired entry written earlier for a request that resolves to the
\* same upstream query, whether or not the two end dates were already
\* clamped to today when fetchEarthquakes received them.
C23_SameQuerySameEntry ==
  \A c \in Slots :
    \A i \in DOMAIN calls[c].invs :
      LET inv == calls[c].invs[i]
      IN \A k \in DOMAIN cache :
           (/\ inv.args.timeRange = "custom"
            /\ k[2] = "custom"
            /\ JSONparse(cache[k]).timestamp < inv.at
            /\ inv.at - JSONparse(cache[k]).timestamp < CACHE_DURATIONS.historical
            /\ QueryOfKey(inv.at, k)
                 = BuildUrl(inv.at, "custom", inv.args.minMagnitude,
                            inv.args.startDate, inv.args.endDate))
           => inv.found

\* C24: the cache holds no payload without a features sequence, and no load
\* is served such a payload from the cache: a response without features
\* leaves no entry, in real-time and in historical mode alike.
C24_NoUnusableEntry ==
  /\ \A k \in DOMAIN cache : JSONparse(cache[k]).data.hasFeatures
  /\ \A c \in Slots :
       \A i \in DOMAIN calls[c].invs :
         calls[c].invs[i].found => calls[c].invs[i].stored.hasFeatures

(***************************************************************************)
(* Concurrent invocations (C25).                                           *)
(***************************************************************************)
FeatSecond == Feature(3, TRUE, 55, 35, "num", 4)

\* Requests of the day feed and responses that share no record.
PairArgs == ArgsOver({"day"}, {<<0 - 1, 1>>})

PairBodies ==
  {Body(TRUE, <<FeatInside, FeatOutside>>, TRUE, 2),
   Body(TRUE, <<FeatSecond>>, TRUE, 1)}

\* Two callers: a second invocation may start while the first awaits.
InitPair ==
  /\ now = 0
  /\ cache = <<>>
  /\ calls = [c \in {1, 2} |-> IdleCall]
  /\ started = 0
  /\ storage = "ok"
  /\ ui = NoUi

NextPair ==
  \/ \E c \in Slots, a \in PairArgs : Start(c, a, MaxCalls)
  \/ \E c \in Slots, s \in {200, 500} : FetchResolves(c, s)
  \/ \E c \in Slots : TextSettles(c)
  \/ \E c \in Slots, b \in PairBodies : JsonResolves(c, b)

SpecPair == InitPair /\ [][NextPair]_vars

\* What one response to the query of this key yields.
DerivedFrom(key, body) == Normalize(key[2], key[3], body).data

\* C25: under every interleaving of the loads, a load that missed the cache
\* issues its own request; a load that succeeds returns the collection
\* derived from its own response and leaves exactly that collection under its
\* key, whatever another load wrote there before, without touching any other
\* entry; every entry derives from one response to the query of its key.
C25_LastWriterWhole ==
  [][/\ \A c \in Slots :
          /\ (calls'[c].pc # "idle" /\ ~calls'[c].invs[1].found)
               => Len(calls'[c].requests) = 1
          /\ (calls[c].pc = "json" /\ calls'[c].pc = "done")
               => /\ calls'[c].outcome = "ok"
                  /\ calls'[c].data
                       = DerivedFrom(calls[c].key, calls'[c].bodies[1])
                  /\ calls[c].key \in DOMAIN cache'
                  /\ JSONparse(cache'[calls[c].key]).data = calls'[c].data
                  /\ \A k \in DOMAIN cache \ {calls[c].key} :
                       k \in DOMAIN cache' /\ cache'[k] = cache[k]
     /\ \A k \in DOMAIN cache' :
          \E b \in PairBodies :
            JSONparse(cache'[k]).data = DerivedFrom(k, b)]_vars

\* Two loads with the same key both missed, fetched and succeeded with
\* different responses; the entry is the collection of one of them.
C25_Witness ==
  /\ calls[1].pc = "done" /\ calls[2].pc = "done"
  /\ calls[1].key = calls[2].key
  /\ Len(calls[1].requests) = 1 /\ Len(calls[2].requests) = 1
  /\ calls[1].data # calls[2].data
  /\ JSONparse(cache[calls[1].key]).data = calls[2].data

(***************************************************************************)
(* Timers and termination (C26, C27).                                      *)
(***************************************************************************)
\* C26: once a load has completed, with a collection or with any failure,
\* no abort timer is pending for it.
C26_NothingPendingAfterLoad ==
  \A c \in Slots : calls[c].pc = "done" => calls[c].timers = {}

\* One load against an upstream that may stall at any point: it answers, with
\* headers or with a body, when it chooses to or never.
NextStall ==
  \/ \E c \in Slots, a \in CoarseArgs : Start(c, a, 1)
  \/ \E c \in Slots, s \in Statuses : FetchResolves(c, s)
  \/ \E c \in Slots, m \in NetworkMarks : FetchRejects(c, m)
  \/ \E c \in Slots : \E tm \in calls[c].timers : TimerFires(c, tm)
  \/ \E c \in Slots : TextSettles(c)
  \/ \E c \in Slots, b \in CoarseBodies : JsonResolves(c, b)
  \/ \E c \in Slots, m \in SyntaxMarks : JsonRejects(c, m)
  \/ Tick(CoarseInstants)

\* Time passes and a timer whose deadline has come runs its callback; nothing
\* obliges the upstream to answer.
SpecStall ==
  /\ Init
  /\ [][NextStall]_vars
  /\ WF_vars(Tick(CoarseInstants))
  /\ WF_vars(\E tm \in calls[1].timers : TimerFires(1, tm))

\* C27: every load that has been invoked eventually completes, with a
\* collection or with a failure, wherever the upstream stalls. (A load that
\* awaits a body has no timer pending: only the upstream can end its wait.)
C27_EveryLoadCompletes ==
  (calls[1].pc # "idle") ~> (calls[1].pc = "done")

(***************************************************************************)
(* Returned collections (C28).                                             *)
(***************************************************************************)
\* C28: every collection a load returns from a real-time invocation, fetched,
\* read from the cache or obtained by the fallback of a historical request,
\* holds only records inside the bounding box whose magnitude is at least the
\* minMagnitude of the request.
C28_ReturnedAllQualify ==
  \A c \in Slots :
    LET cr == calls[c]
    IN (/\ cr.pc = "done"
        /\ cr.outcome = "ok"
        /\ cr.cur.timeRange \in RealTimeRanges)
       => \A i \in 1..Len(cr.data.features) :
            Qualifies(cr.data.features[i], cr.args.minMagnitude)

(***************************************************************************)
(* Loading indicator and number of loads (C29, C30).                       *)
(***************************************************************************)
\* C29: the loading indicator of the mounted component is on exactly while
\* at least one load is in flight.
C29_LoadingWhileInFlight ==
  ui.mounted => (ui.loading <=> \E c \in DOMAIN ui.loads : ui.loads[c].active)

\* The first refresh of the interval set at mount.
FirstRefresh == UiStart + REFRESH_INTERVAL

\* C30: when the only user action so far is one change of a filter, the
\* component has invoked the load at most twice: once at mount and at most
\* once for the change (instants before the first periodic refresh).
C30_OneLoadPerChange ==
  (/\ ui.mounted
   /\ ui.events = 1
   /\ ui.dateRange.ref = 1
   /\ now < FirstRefresh)
    => started <= 2

====
